---- MODULE Spec2Model ----
(***************************************************************************)
(* Model of the anecdote bot: the SQLite store (database_sqlite.py), the   *)
(* theme based recommender (recommendations.py) and the feedback handler   *)
(* of the transport layer (main.py).                                       *)
(*                                                                         *)
(* Reals are fixed point integers.  Scores and link weights are held in    *)
(* thousandths (1.0 = 1000); theme probabilities in hundred-thousandths    *)
(* (1.0 = 100000), so that every product of the code is exact.             *)
(***************************************************************************)
EXTENDS Integers, FiniteSets, Sequences, Bags, TLC

VARIABLES
    users,              \* table users: rows [id, telegram_id]
    jokes,              \* table jokes: rows [id, text, author_id, is_approved, status]
    joke_themes,        \* table joke_themes: rows [joke_id, theme_id, weight]
    user_preferences,   \* table user_preferences: rows [user_id, theme_id, score, interactions]
    interactions,       \* table interactions: rows [user_id, joke_id, liked]
    favorites,          \* table favorites: rows [user_id, joke_id]
    user_view_history,  \* ThemeBasedRecommender.user_view_history: user id -> set of
                        \* joke ids (a user without a key has the empty set)
    ret,                \* the last call that wrote a user's data: its name and
                        \* arguments (user_id, joke_id, liked) and what it
                        \* returned (ok, id)
    tasks,              \* the running process_like_dislike handlers
    fav_before,         \* history: the arguments of the last add_favorite call and
                        \* table favorites as it was before that call
    rec,                \* the last get_recommended_joke call: its user, the path
                        \* it took, the joke it returned (0: None) and the theme
    prob,               \* a _calculate_theme_probability call: theme_data and
                        \* the returned probability (-1: not yet called)
    profile,            \* the last get_user_profile call: its user and the
                        \* profile it returned (0: None)
    choice,             \* a choice of a theme: the list of (theme,
                        \* probability) pairs, the list
                        \* _normalize_probabilities returned for it, the
                        \* weights after the jitter and the theme drawn
    conversation        \* the add-joke conversation of one chat: the state
                        \* of AddJokeStates ("none": no state), the data kept
                        \* with it (<<>>: none) and the number of confirmation
                        \* handlers that have answered and not yet finished

vars == <<users, jokes, joke_themes, user_preferences, interactions,
          favorites, user_view_history, ret, tasks, fav_before, rec, prob, profile, choice, conversation>>

----------------------------------------------------------------------------
(* Bounds of the model *)

MaxUsers == 2

MaxTelegramIds == 1

MaxJokes == 4

MaxInteractions == 3

MaxRows == 2

MaxSeen == 6

MaxRated == 1

(* Program constants *)

themes_count == 5

ScoreOne == 1000

LearningDivisor == 10

DefaultWeight == 1000

InitialJokes == 3

MiscTheme == 5

exploration_rate == 10000

ProbabilityOne == 100000

FewInteractions == 5

ProbabilityFloor == 30000

DampTenths == 3

HistoryCap == 100

HistoryKeep == 50

\* weights of the draw are counted in hundredths: the jitter is at most
\* 0.05 and a weight after the jitter at least 0.01
WeightScale == 100

JitterMax == 5

WeightFloor == 1

----------------------------------------------------------------------------
(* Domains *)

UserIds == 1..MaxUsers

TelegramIds == {100 + i : i \in 1..MaxTelegramIds}

JokeIds == 1..MaxJokes

Themes == 1..themes_count

\* joke_themes.weight is a positive real: half, the column default, tenfold
WeightValues == {500, DefaultWeight, 10000}

\* the two concurrent feedback events (a rapid double tap)
Tasks == {1, 2}

\* add_joke_text: the least and the greatest length of a submitted text
MinLength == 10
MaxLength == 1000

Min(a, b) == IF a < b THEN a ELSE b

Max(a, b) == IF a > b THEN a ELSE b

----------------------------------------------------------------------------
(* Database.init_db / _add_initial_jokes: three approved jokes, linked to  *)
(* the themes [1,2], [5], [1,2].                                           *)

\* of the keywords of classify_joke the first text holds one, and the
\* other texts none
InitialText(j) ==
    IF j = 1 THEN {[stem |-> "sjel", capital |-> FALSE]} ELSE {}

InitialJokeRows ==
    {[id |-> j, text |-> InitialText(j), author_id |-> 0,
      is_approved |-> TRUE, status |-> "approved"]
        : j \in 1..InitialJokes}

InitialLinks == {<<1, 1>>, <<1, 2>>, <<2, MiscTheme>>, <<3, 1>>, <<3, 2>>}

(* The weight column of a link is the column default, except for the link *)
(* of the third joke to its second theme, which carries any of the weights *)
(* of the model: the catalog holds jokes of equal and of unequal weights.  *)
VariedLink == <<3, 2>>

InitialWeightChoices ==
    {w \in [InitialLinks -> WeightValues] :
        \A l \in InitialLinks : l # VariedLink => w[l] = DefaultWeight}

Return(op, user_id, joke_id, liked, ok, id) ==
    [op |-> op, user_id |-> user_id, joke_id |-> joke_id, liked |-> liked,
     ok |-> ok, id |-> id]

NoReturn == Return("none", 0, 0, FALSE, FALSE, 0)

\* table favorites is a bag of (user_id, joke_id) rows: the rows differ in
\* their id and added_at columns only
NoFavoriteCall ==
    [user_id |-> 0, joke_id |-> 0, favorites |-> EmptyBag, repeated |-> FALSE]

IdleTask == [pc |-> "idle", telegram_id |-> 0, joke_id |-> 0, liked |-> FALSE]

NoRecommendation == [user_id |-> 0, path |-> "none", joke |-> 0, theme_id |-> 0]

NoThemeData == [score |-> 0, interactions |-> 0, probability |-> -1]

NoChoice ==
    [stage |-> "none", theme_probabilities |-> <<>>, normalized |-> <<>>,
     weights |-> <<>>, chosen |-> 0]

NoProfile ==
    [user_id |-> 0, themes |-> <<>>, total_interactions |-> 0,
     favorite_theme |-> 0, least_favorite_theme |-> 0,
     most_interacted_theme |-> 0]

\* MemoryStorage of a started bot: no state, no data
NoConversation == [state |-> "none", data |-> <<>>, replying |-> 0]

InitTables ==
    /\ conversation = NoConversation
    /\ users = {}
    /\ jokes = InitialJokeRows
    /\ \E w \in InitialWeightChoices :
          joke_themes = {[joke_id |-> l[1], theme_id |-> l[2], weight |-> w[l]]
                            : l \in InitialLinks}
    /\ user_preferences = {}
    /\ interactions = {}
    /\ favorites = EmptyBag
    /\ user_view_history = [u \in UserIds |-> {}]
    /\ ret = NoReturn
    /\ tasks = [t \in Tasks |-> IdleTask]
    /\ fav_before = NoFavoriteCall
    /\ rec = NoRecommendation
    /\ profile = NoProfile

Init == InitTables /\ prob = NoThemeData /\ choice = NoChoice

----------------------------------------------------------------------------
(* Database.get_or_create_user, as a function of the tables: the tables    *)
(* after the call and the returned user (ok = FALSE: None is returned).    *)

RegistrationRows(user_id) ==
    {[user_id |-> user_id, theme_id |-> t, score |-> 0, interactions |-> 0]
        : t \in 1..themes_count}

\* the call without its SELECT by telegram_id
get_or_create_user_insert(us, prefs, telegram_id) ==
    LET user_id == Cardinality(us) + 1
    IN  [users |-> us \cup {[id |-> user_id, telegram_id |-> telegram_id]},
         user_preferences |-> prefs \cup RegistrationRows(user_id),
         ok |-> TRUE, id |-> user_id]

get_or_create_user(us, prefs, telegram_id) ==
    LET row == {u \in us : u.telegram_id = telegram_id}
        user_id == Cardinality(us) + 1      \* cursor.lastrowid
    IN  IF row # {}
        THEN [users |-> us, user_preferences |-> prefs, ok |-> TRUE,
              id |-> (CHOOSE u \in row : TRUE).id]
        ELSE IF \E p \in prefs : p.user_id = user_id
        THEN \* PRIMARY KEY (user_id, theme_id) conflict: get_connection
             \* rolls the transaction back and the call returns None
             [users |-> us, user_preferences |-> prefs, ok |-> FALSE, id |-> 0]
        ELSE [users |-> us \cup {[id |-> user_id, telegram_id |-> telegram_id]},
              user_preferences |-> prefs \cup RegistrationRows(user_id),
              ok |-> TRUE, id |-> user_id]

GetOrCreateUser(telegram_id) ==
    LET r == get_or_create_user(users, user_preferences, telegram_id)
    IN  /\ \/ Cardinality(users) < MaxUsers
           \/ \E u \in users : u.telegram_id = telegram_id
        /\ users' = r.users
        /\ user_preferences' = r.user_preferences
        /\ ret' = Return("get_or_create_user", 0, 0, FALSE, r.ok, r.id)
        /\ UNCHANGED <<jokes, joke_themes, interactions, favorites,
                       user_view_history, tasks, fav_before, rec, prob, profile, choice, conversation>>

----------------------------------------------------------------------------
(* Database.get_joke_themes *)

get_joke_themes(joke_id) == {l \in joke_themes : l.joke_id = joke_id}

(* Database._update_single_theme_preference *)

PreferenceRows(prefs, user_id, theme_id) ==
    {p \in prefs : p.user_id = user_id /\ p.theme_id = theme_id}

\* weight = theme["weight"] or 1.0
EffectiveWeight(theme) ==
    IF theme.weight = 0 THEN DefaultWeight ELSE theme.weight

CurrentScoreUnread(rows) == 0

\* current_score = row["score"] if row else 0.0
CurrentScore(rows) ==
    IF rows # {} THEN (CHOOSE r \in rows : TRUE).score ELSE 0

DeltaUnweighted(theme) == DefaultWeight \div LearningDivisor

\* delta = 0.1 * weight
Delta(theme) == EffectiveWeight(theme) \div LearningDivisor

NewScoreUnclamped(current_score, delta, liked) ==
    IF liked THEN current_score + delta ELSE current_score - delta

NewScore(current_score, delta, liked) ==
    IF liked
    THEN Min(ScoreOne, current_score + delta)
    ELSE Max(-ScoreOne, current_score - delta)

NewInteractionsReset(rows) == 1

\* COALESCE((SELECT interactions + 1 ...), 1)
NewInteractions(rows) ==
    IF rows # {} THEN (CHOOSE r \in rows : TRUE).interactions + 1 ELSE 1

\* INSERT OR REPLACE INTO user_preferences
update_single_theme_preference(prefs, user_id, theme, liked) ==
    LET rows == PreferenceRows(prefs, user_id, theme.theme_id)
        new_score == NewScore(CurrentScore(rows), Delta(theme), liked)
    IN  (prefs \ rows) \cup
            {[user_id |-> user_id, theme_id |-> theme.theme_id,
              score |-> new_score, interactions |-> NewInteractions(rows)]}

(* Database.update_user_preference: the loop over the themes of the joke, *)
(* and the call as a function of the table: the table after the call and  *)
(* the returned flag.                                                      *)

RECURSIVE UpdateThemes(_, _, _, _)
UpdateThemes(prefs, user_id, themes, liked) ==
    IF themes = {} THEN prefs
    ELSE LET theme == CHOOSE t \in themes :
                        \A o \in themes : t.theme_id <= o.theme_id
         IN  UpdateThemes(
                update_single_theme_preference(prefs, user_id, theme, liked),
                user_id, themes \ {theme}, liked)

UpdateResultAlways(themes) == TRUE

\* if not themes: return False ... return True
UpdateResult(themes) == themes # {}

update_user_preference(prefs, user_id, joke_id, liked) ==
    LET themes == get_joke_themes(joke_id)
    IN  [user_preferences |-> UpdateThemes(prefs, user_id, themes, liked),
         ok |-> UpdateResult(themes)]

\* the number of feedback events counted in user_preferences.interactions
SumInteractions(prefs) ==
    Cardinality(UNION {{<<p.user_id, p.theme_id, k>> : k \in 1..p.interactions}
                          : p \in prefs})

UpdateUserPreference(user_id, joke_id, liked) ==
    LET r == update_user_preference(user_preferences, user_id, joke_id, liked)
    IN  /\ SumInteractions(user_preferences) < MaxInteractions
        /\ user_preferences' = r.user_preferences
        /\ ret' = Return("update_user_preference", user_id, joke_id, liked,
                         r.ok, 0)
        /\ UNCHANGED <<users, jokes, joke_themes, interactions, favorites,
                       user_view_history, tasks, fav_before, rec, prob, profile, choice, conversation>>

(* update_user_preference when the storage fails.  sqlite3.connect raises *)
(* ("connect"): the handler of the method returns False.  get_joke_themes *)
(* fails ("themes"): it returns [] and the method returns False.  A       *)
(* statement of _update_single_theme_preference raises ("statement"):     *)
(* get_connection rolls the transaction back and swallows the error, the  *)
(* method returns None.  conn.commit() raises ("commit"), as it does when *)
(* another connection holds a read lock: get_connection rolls back and    *)
(* swallows the error after the method has run to its return statement.   *)

PreferenceFaults == {"none", "connect", "themes", "statement", "commit"}

update_user_preference_failing(prefs, user_id, joke_id, liked, fault) ==
    LET themes == IF fault = "themes" THEN {} ELSE get_joke_themes(joke_id)
    IN  IF fault = "connect"
        THEN [user_preferences |-> prefs, ok |-> FALSE]
        ELSE IF fault = "statement" /\ themes # {}
        THEN \* conn.rollback(); the method returns None
             [user_preferences |-> prefs, ok |-> FALSE]
        ELSE IF fault = "commit"
        THEN \* conn.rollback(); the value of the return statement stands
             [user_preferences |-> prefs, ok |-> UpdateResult(themes)]
        ELSE [user_preferences |-> UpdateThemes(prefs, user_id, themes, liked),
              ok |-> UpdateResult(themes)]

UpdateUserPreferenceFailing(user_id, joke_id, liked, fault) ==
    LET r == update_user_preference_failing(user_preferences, user_id,
                                            joke_id, liked, fault)
    IN  /\ SumInteractions(user_preferences) < MaxInteractions
        /\ user_preferences' = r.user_preferences
        /\ ret' = Return("update_user_preference", user_id, joke_id, liked,
                         r.ok, 0)
        /\ UNCHANGED <<users, jokes, joke_themes, interactions, favorites,
                       user_view_history, tasks, fav_before, rec, prob,
                       profile, choice, conversation>>

----------------------------------------------------------------------------
(* Database.get_user_interactions *)

get_user_interactions(rows, user_id) ==
    {r.joke_id : r \in {x \in rows : x.user_id = user_id}}

(* Database.add_interaction: INSERT OR REPLACE under UNIQUE(user_id, joke_id) *)

InsertInteraction(rows, user_id, joke_id, liked) ==
    rows \cup {[user_id |-> user_id, joke_id |-> joke_id, liked |-> liked]}

ReplaceInteractionOfJoke(rows, user_id, joke_id, liked) ==
    {r \in rows : r.joke_id # joke_id}
        \cup {[user_id |-> user_id, joke_id |-> joke_id, liked |-> liked]}

add_interaction(rows, user_id, joke_id, liked) ==
    {r \in rows : ~(r.user_id = user_id /\ r.joke_id = joke_id)}
        \cup {[user_id |-> user_id, joke_id |-> joke_id, liked |-> liked]}

AddInteraction(user_id, joke_id, liked) ==
    /\ \/ Cardinality(interactions) < MaxRows
       \/ \E r \in interactions : r.user_id = user_id /\ r.joke_id = joke_id
    /\ interactions' = add_interaction(interactions, user_id, joke_id, liked)
    /\ ret' = Return("add_interaction", user_id, joke_id, liked, TRUE, 0)
    /\ UNCHANGED <<users, jokes, joke_themes, user_preferences, favorites,
                   user_view_history, tasks, fav_before, rec, prob, profile, choice, conversation>>

(* Database.add_favorite: the returned flag and the table after the call *)

FavoriteRow(user_id, joke_id) == [user_id |-> user_id, joke_id |-> joke_id]

add_favorite_keep(rows, user_id, joke_id) ==
    [favorites |-> rows (+) SetToBag({FavoriteRow(user_id, joke_id)}),
     ok |-> TRUE]

add_favorite(rows, user_id, joke_id) ==
    LET row == FavoriteRow(user_id, joke_id)
    IN  IF BagIn(row, rows)
        THEN \* DELETE FROM favorites WHERE user_id = ? AND joke_id = ?
             [favorites |-> [r \in DOMAIN rows \ {row} |-> rows[r]],
              ok |-> FALSE]
        ELSE \* INSERT INTO favorites (user_id, joke_id)
             [favorites |-> rows (+) SetToBag({row}), ok |-> TRUE]

AddFavorite(user_id, joke_id) ==
    LET r == add_favorite(favorites, user_id, joke_id)
    IN  /\ \/ BagCardinality(favorites) < MaxRows
           \/ BagIn(FavoriteRow(user_id, joke_id), favorites)
        /\ favorites' = r.favorites
        /\ ret' = Return("add_favorite", user_id, joke_id, FALSE, r.ok, 0)
        /\ fav_before' =
              [user_id |-> user_id, joke_id |-> joke_id,
               favorites |-> favorites,
               repeated |-> (fav_before.user_id = user_id
                                /\ fav_before.joke_id = joke_id)]
        /\ UNCHANGED <<users, jokes, joke_themes, user_preferences,
                       interactions, user_view_history, tasks, rec, prob, profile, choice, conversation>>

----------------------------------------------------------------------------
(* Database.classify_joke.  A text is the set of the words in it, a word  *)
(* a stem and whether it is written with a capital letter.  The keywords  *)
(* are spelled as in the code: those of theme 4 include "Штирлиц", with a *)
(* capital letter; the theme "misc" has no keywords.                      *)

Stems == {"rabota", "student", "kot", "sjel", "smert", "shtirlic", "slovo"}

Words == [stem : Stems, capital : BOOLEAN]

Keywords(theme_id) ==
    CASE theme_id = 1 -> {[stem |-> "rabota", capital |-> FALSE]}
      [] theme_id = 2 -> {[stem |-> "student", capital |-> FALSE]}
      [] theme_id = 3 -> {[stem |-> "kot", capital |-> FALSE],
                          [stem |-> "sjel", capital |-> FALSE]}
      [] theme_id = 4 -> {[stem |-> "smert", capital |-> FALSE],
                          [stem |-> "shtirlic", capital |-> TRUE]}
      [] OTHER -> {}

\* joke_text.lower()
Lower(text) == {[w EXCEPT !.capital = FALSE] : w \in text}

\* the texts users submit to the recommender's catalog
JokeTexts ==
    {{}, {[stem |-> "rabota", capital |-> FALSE],
          [stem |-> "kot", capital |-> FALSE]}}

classify_joke(text) ==
    LET joke_text_lower == Lower(text)
        \* any(word in joke_text_lower for word in words)
        themes == {t \in Themes : Keywords(t) \cap joke_text_lower # {}}
    IN  IF themes = {} THEN {MiscTheme} ELSE themes

(* Database.add_user_joke *)

add_user_joke(text, author_id) ==
    LET joke_id == Cardinality(jokes) + 1      \* cursor.lastrowid
    IN  [jokes |-> jokes \cup {[id |-> joke_id, text |-> text,
                               author_id |-> author_id,
                               is_approved |-> FALSE, status |-> "pending"]},
         joke_themes |-> joke_themes \cup
            {[joke_id |-> joke_id, theme_id |-> t, weight |-> DefaultWeight]
                : t \in classify_joke(text)}]

AddUserJoke(text, author_id) ==
    LET r == add_user_joke(text, author_id)
    IN  /\ Cardinality(jokes) < MaxJokes
        /\ jokes' = r.jokes
        /\ joke_themes' = r.joke_themes
        /\ UNCHANGED <<users, user_preferences, interactions, favorites,
                       user_view_history, ret, tasks, fav_before, rec, prob, profile, choice, conversation>>

----------------------------------------------------------------------------
(* The add-joke conversation of main.py: cancel_handler, add_joke_start,   *)
(* add_joke_text and add_joke_confirmation.  A message is the text a user  *)
(* sends and the whitespace typed after it; the dispatcher gives a message *)
(* to the first handler whose filters it passes, and a handler registered  *)
(* without a state takes messages of a chat without a state only.         *)
(* The texts of the chat have further words: a forbidden one, a passage   *)
(* of 1000 characters and the phrases the handlers compare with.          *)

WordLength(stem) ==
    CASE stem = "rabota" -> 6
      [] stem = "student" -> 7
      [] stem = "kot" -> 3
      [] stem = "sjel" -> 4
      [] stem = "smert" -> 6
      [] stem = "shtirlic" -> 7
      [] stem = "slovo" -> 5
      [] stem = "reklama" -> 7
      [] stem = "povest" -> MaxLength   \* a passage of 1000 characters
      [] stem = "da" -> 2
      [] stem = "net" -> 3
      [] stem = "dobavit" -> 18
      [] stem = "otmena" -> 8
      [] stem = "cancel" -> 7

\* len(text): the words and one space between two of them
RECURSIVE TextLength(_)
TextLength(text) ==
    IF text = {} THEN 0
    ELSE LET w == CHOOSE w \in text : TRUE
         IN  WordLength(w.stem) + (IF text = {w} THEN 0 ELSE 1)
                + TextLength(text \ {w})

ForbiddenWords == {[stem |-> "reklama", capital |-> FALSE]}

CancelCommand == {[stem |-> "cancel", capital |-> FALSE]}

CancelPhrases == {CancelCommand, {[stem |-> "otmena", capital |-> TRUE]}}

NegativeResponses == {{[stem |-> "net", capital |-> FALSE]}}

PositiveResponses == {{[stem |-> "da", capital |-> FALSE]}}

AddJokeButton == {[stem |-> "dobavit", capital |-> TRUE]}

\* the texts a user sends, each with or without a space typed after it
ChatTexts ==
    {{},
     {[stem |-> "da", capital |-> FALSE]},
     {[stem |-> "da", capital |-> TRUE]},
     {[stem |-> "net", capital |-> TRUE]},
     {[stem |-> "otmena", capital |-> TRUE]},
     {[stem |-> "otmena", capital |-> FALSE]},
     {[stem |-> "cancel", capital |-> FALSE]},
     AddJokeButton,
     {[stem |-> "kot", capital |-> FALSE], [stem |-> "slovo", capital |-> FALSE]},
     {[stem |-> "kot", capital |-> FALSE], [stem |-> "rabota", capital |-> FALSE]},
     {[stem |-> "povest", capital |-> FALSE]},
     {[stem |-> "povest", capital |-> FALSE], [stem |-> "kot", capital |-> FALSE]},
     {[stem |-> "rabota", capital |-> FALSE], [stem |-> "reklama", capital |-> FALSE]},
     {[stem |-> "rabota", capital |-> FALSE], [stem |-> "reklama", capital |-> TRUE]},
     {[stem |-> "shtirlic", capital |-> TRUE], [stem |-> "student", capital |-> FALSE]}}

ChatMessages == [text : ChatTexts, padding : {0, 1}]

\* the chat's user
Chatter == CHOOSE telegram_id \in TelegramIds : TRUE

\* message.text.strip()
strip(message) == message.text

\* message.text in phrases
InPhrases(message, phrases) ==
    message.padding = 0 /\ message.text \in phrases

\* message.text.lower() in phrases
LowerInPhrases(message, phrases) ==
    message.padding = 0 /\ Lower(message.text) \in phrases

\* the filter commands=["cancel"]
IsCancelCommand(message) == Lower(message.text) = CancelCommand

\* the checks of add_joke_text, without text.lower()
add_joke_text_checks_unlowered(text) ==
    IF TextLength(text) < MinLength THEN "short"
    ELSE IF TextLength(text) > MaxLength THEN "long"
    ELSE IF ForbiddenWords \cap text # {} THEN "forbidden"
    ELSE "accepted"

\* the checks of add_joke_text on the stripped text
add_joke_text_checks(text) ==
    IF TextLength(text) < MinLength THEN "short"
    ELSE IF TextLength(text) > MaxLength THEN "long"
    ELSE IF ForbiddenWords \cap Lower(text) # {} THEN "forbidden"
    ELSE "accepted"

\* state.finish(): the state and its data are dropped
finish(conv) == [conv EXCEPT !.state = "none", !.data = <<>>]

\* cancel_handler: /cancel in any state
CancelHandler(message) ==
    /\ IsCancelCommand(message)
    /\ conversation' = IF conversation.state = "none"
                       THEN conversation
                       ELSE finish(conversation)
    /\ UNCHANGED <<users, jokes, joke_themes, user_preferences, interactions,
                   favorites, user_view_history, ret, tasks, fav_before, rec,
                   prob, profile, choice>>

\* add_joke_start: the button, in a chat without a state
AddJokeStart(message) ==
    /\ ~IsCancelCommand(message)
    /\ conversation.state = "none"
    /\ InPhrases(message, {AddJokeButton})
    /\ conversation' = [conversation EXCEPT !.state = "waiting_for_joke"]
    /\ UNCHANGED <<users, jokes, joke_themes, user_preferences, interactions,
                   favorites, user_view_history, ret, tasks, fav_before, rec,
                   prob, profile, choice>>

\* add_joke_text: any other message in state waiting_for_joke
AddJokeText(message) ==
    /\ ~IsCancelCommand(message)
    /\ conversation.state = "waiting_for_joke"
    /\ LET text == strip(message)
       IN  conversation' =
             IF InPhrases(message, CancelPhrases)
             THEN finish(conversation)
             ELSE IF add_joke_text_checks(text) # "accepted"
             THEN conversation
             ELSE [conversation EXCEPT
                      !.data = <<[joke_text |-> text,
                                  joke_themes |-> classify_joke(text)]>>,
                      !.state = "waiting_for_confirmation"]
    /\ UNCHANGED <<users, jokes, joke_themes, user_preferences, interactions,
                   favorites, user_view_history, ret, tasks, fav_before, rec,
                   prob, profile, choice>>

\* add_joke_confirmation: any other message in state
\* waiting_for_confirmation.  After a positive answer the handler stores
\* the joke and awaits the delivery of its answer before state.finish();
\* fault = "insert": the INSERT of add_user_joke fails and None is returned
AddJokeConfirmation(message, fault) ==
    /\ ~IsCancelCommand(message)
    /\ conversation.state = "waiting_for_confirmation"
    /\ IF InPhrases(message, CancelPhrases)
       THEN /\ conversation' = finish(conversation)
            /\ UNCHANGED <<users, user_preferences, jokes, joke_themes, ret>>
       ELSE IF LowerInPhrases(message, NegativeResponses)
       THEN /\ conversation' = [conversation EXCEPT !.state = "waiting_for_joke"]
            /\ UNCHANGED <<users, user_preferences, jokes, joke_themes, ret>>
       ELSE IF LowerInPhrases(message, PositiveResponses)
       THEN IF conversation.data = <<>>
            THEN /\ conversation' = finish(conversation)
                 /\ UNCHANGED <<users, user_preferences, jokes, joke_themes, ret>>
            ELSE LET joke_text == conversation.data[1].joke_text
                     user == get_or_create_user(users, user_preferences, Chatter)
                     result == add_user_joke(joke_text, user.id)
                 IN  /\ users' = user.users
                     /\ user_preferences' = user.user_preferences
                     /\ ret' = Return("get_or_create_user", 0, 0, FALSE,
                                      user.ok, user.id)
                     /\ IF ~user.ok
                        THEN \* user is None: user["id"] raises TypeError
                             UNCHANGED <<jokes, joke_themes, conversation>>
                        ELSE /\ conversation.replying < Cardinality(Tasks)
                             /\ conversation' = [conversation EXCEPT
                                                    !.replying = @ + 1]
                             /\ IF fault = "insert"
                                THEN UNCHANGED <<jokes, joke_themes>>
                                ELSE /\ Cardinality(jokes) < MaxJokes
                                     /\ jokes' = result.jokes
                                     /\ joke_themes' = result.joke_themes
       ELSE \* the answer is not recognised
            UNCHANGED <<users, user_preferences, jokes, joke_themes, ret,
                        conversation>>
    /\ UNCHANGED <<interactions, favorites, user_view_history, tasks,
                   fav_before, rec, prob, profile, choice>>

\* the answer of a positive confirmation is delivered: state.finish()
FinishConfirmation ==
    /\ conversation.replying > 0
    /\ conversation' = [finish(conversation) EXCEPT !.replying = @ - 1]
    /\ UNCHANGED <<users, jokes, joke_themes, user_preferences, interactions,
                   favorites, user_view_history, ret, tasks, fav_before, rec,
                   prob, profile, choice>>

----------------------------------------------------------------------------
(* A storage call of get_recommended_joke may fail.  When sqlite3.connect  *)
(* raises, the method's own handler returns its default ({} or [] or      *)
(* None); when a statement raises, get_connection swallows the error and  *)
(* the method returns None.                                                *)

Faults == {"none", "preferences", "interactions_connect",
           "interactions_query", "lookup"}

(* Database.get_random_joke: the values the call may return (0: None) *)

get_random_joke_any(excluded_ids, theme_id, fault) ==
    LET in_theme == {j \in jokes : \E l \in joke_themes :
                        l.joke_id = j.id /\ l.theme_id = theme_id}
        found == IF theme_id # 0
                 THEN {j.id : j \in in_theme} \ excluded_ids
                 ELSE {j.id : j \in jokes}
    IN  IF fault = "lookup" \/ (theme_id = 0 /\ excluded_ids # {})
           \/ found = {}
        THEN {0} ELSE found

get_random_joke(excluded_ids, theme_id, fault) ==
    LET approved == {j \in jokes : j.is_approved}
        in_theme == {j \in approved : \E l \in joke_themes :
                        l.joke_id = j.id /\ l.theme_id = theme_id}
    IN  IF fault = "lookup" THEN {0}
        ELSE IF theme_id # 0
        THEN \* ... JOIN joke_themes ... AND j.id NOT IN (excluded_ids)
             (IF {j.id : j \in in_theme} \ excluded_ids = {} THEN {0}
              ELSE {j.id : j \in in_theme} \ excluded_ids)
        ELSE IF excluded_ids # {}
        THEN \* the query without a theme has no alias j: "AND j.id NOT IN"
             \* is an sqlite3.OperationalError, the call returns None
             {0}
        ELSE (IF approved = {} THEN {0} ELSE {j.id : j \in approved})

(* Database.get_user_preferences: themes LEFT JOIN user_preferences, one  *)
(* entry for every theme, "score or 0.0" and "interactions or 0".         *)

get_user_preferences(user_id) ==
    [t \in Themes |->
        LET rows == PreferenceRows(user_preferences, user_id, t)
        IN  IF rows = {} THEN [score |-> 0, interactions |-> 0]
            ELSE LET r == CHOOSE x \in rows : TRUE
                 IN  [score |-> r.score, interactions |-> r.interactions]]

(* ThemeBasedRecommender._calculate_theme_probability *)

calculate_theme_probability_floor_last(theme_data) ==
    LET linear == ((theme_data.score + ScoreOne) * ProbabilityOne)
                        \div (2 * ScoreOne)
        damped == IF theme_data.score * 2 < -ScoreOne
                  THEN (linear * DampTenths) \div 10 ELSE linear
    IN  IF theme_data.interactions < FewInteractions
        THEN Max(damped, ProbabilityFloor) ELSE damped

\* the floor of 0.3 applied whatever the number of interactions
calculate_theme_probability_floor_always(theme_data) ==
    LET linear == ((theme_data.score + ScoreOne) * ProbabilityOne)
                        \div (2 * ScoreOne)
        floored == Max(linear, ProbabilityFloor)
    IN  IF theme_data.score * 2 < -ScoreOne
        THEN (floored * DampTenths) \div 10 ELSE floored

calculate_theme_probability(theme_data) ==
    LET \* probability = (score + 1) / 2
        linear == ((theme_data.score + ScoreOne) * ProbabilityOne)
                        \div (2 * ScoreOne)
        \* if interactions < 5: probability = max(probability, 0.3)
        floored == IF theme_data.interactions < FewInteractions
                   THEN Max(linear, ProbabilityFloor) ELSE linear
    IN  \* if score < -0.5: probability *= 0.3
        IF theme_data.score * 2 < -ScoreOne
        THEN (floored * DampTenths) \div 10 ELSE floored

CalculateThemeProbability ==
    /\ prob.probability = -1
    /\ prob' = [prob EXCEPT !.probability =
                    calculate_theme_probability(
                        [score |-> prob.score,
                         interactions |-> prob.interactions])]
    /\ UNCHANGED <<users, jokes, joke_themes, user_preferences, interactions,
                   favorites, user_view_history, ret, tasks, fav_before, rec,
                   profile, choice, conversation>>

(* _calculate_theme_probabilities keeps the themes of positive probability; *)
(* _choose_theme_by_probability draws one of them: after the jitter every   *)
(* weight is at least 0.01, so each of them can be drawn.                   *)

ChoosableThemes(preferences) ==
    {t \in DOMAIN preferences :
        calculate_theme_probability(preferences[t]) > 0}

(* _calculate_theme_probabilities: the (theme, probability) pairs of       *)
(* probability > 0, in the order of preferences.items(), from theme_id on. *)

RECURSIVE PositivePairs(_, _)
PositivePairs(preferences, theme_id) ==
    IF theme_id > themes_count THEN <<>>
    ELSE LET probability ==
                 calculate_theme_probability(preferences[theme_id])
         IN  (IF probability > 0
              THEN <<[theme |-> theme_id, probability |-> probability]>>
              ELSE <<>>) \o PositivePairs(preferences, theme_id + 1)

(* _normalize_probabilities.  A normalized probability is the fraction    *)
(* num / den.                                                             *)

RECURSIVE SumProbabilities(_)
SumProbabilities(theme_probabilities) ==
    IF theme_probabilities = <<>> THEN 0
    ELSE Head(theme_probabilities).probability
            + SumProbabilities(Tail(theme_probabilities))

\* the probabilities as they are, not divided by their total
normalize_probabilities_undivided(theme_probabilities) ==
    [i \in DOMAIN theme_probabilities |->
        [theme |-> theme_probabilities[i].theme,
         num |-> theme_probabilities[i].probability,
         den |-> ProbabilityOne]]

normalize_probabilities(theme_probabilities) ==
    LET total_prob == SumProbabilities(theme_probabilities)
    IN  IF theme_probabilities = <<>> THEN <<>>
        ELSE IF total_prob > 0
        THEN [i \in DOMAIN theme_probabilities |->
                [theme |-> theme_probabilities[i].theme,
                 num |-> theme_probabilities[i].probability,
                 den |-> total_prob]]
        ELSE [i \in DOMAIN theme_probabilities |->
                [theme |-> theme_probabilities[i].theme,
                 num |-> 1, den |-> Len(theme_probabilities)]]

NormalizeProbabilities ==
    /\ choice.stage = "listed"
    /\ choice' = [choice EXCEPT
                    !.stage = "normalized",
                    !.normalized =
                        normalize_probabilities(choice.theme_probabilities)]
    /\ UNCHANGED <<users, jokes, joke_themes, user_preferences, interactions,
                   favorites, user_view_history, ret, tasks, fav_before, rec,
                   prob, profile, conversation>>

CalculateThemeProbabilities(user_id) ==
    LET theme_probabilities ==
            PositivePairs(get_user_preferences(user_id), 1)
    IN  /\ choice.stage = "none"
        /\ choice' = [choice EXCEPT
                        !.stage = "normalized",
                        !.theme_probabilities = theme_probabilities,
                        !.normalized =
                            normalize_probabilities(theme_probabilities)]
        /\ UNCHANGED <<users, jokes, joke_themes, user_preferences,
                       interactions, favorites, user_view_history, ret, tasks,
                       fav_before, rec, prob, profile, conversation>>

(* _choose_theme_by_probability.  jitter[i] is random.uniform(-0.05, 0.05) *)
(* for the i-th weight, in hundredths; a weight num / den is held as the    *)
(* integer WeightScale * den * weight, the same scale for every weight of   *)
(* the list, which random.choices does not depend on.                       *)

Jitters == {-JitterMax, JitterMax}

\* the weights without "weights = [max(w, 0.01) for w in weights]"
jittered_weights_unfloored(normalized, jitter) ==
    [i \in DOMAIN normalized |->
        IF Len(normalized) > 1
        THEN WeightScale * normalized[i].num + jitter[i] * normalized[i].den
        ELSE WeightScale * normalized[i].num]

jittered_weights(normalized, jitter) ==
    [i \in DOMAIN normalized |->
        IF Len(normalized) > 1
        THEN Max(WeightScale * normalized[i].num
                    + jitter[i] * normalized[i].den,
                 WeightFloor * normalized[i].den)
        ELSE WeightScale * normalized[i].num]

\* itertools.accumulate(weights), up to index i
RECURSIVE CumWeight(_, _)
CumWeight(weights, i) ==
    IF i = 0 THEN 0 ELSE weights[i] + CumWeight(weights, i - 1)

\* random.choices(themes, weights, k=1)[0]:
\* themes[bisect(cum_weights, random() * total, 0, n - 1)]
choices(themes, weights, point) ==
    LET n == Len(weights)
        above == {i \in 1..(n - 1) : CumWeight(weights, i) > point} \cup {n}
    IN  themes[CHOOSE i \in above : \A k \in above : i <= k]

\* values of random() * total: where the share of each weight begins, and
\* the last value below the total
RandomPoints(weights) ==
    {CumWeight(weights, i) : i \in 0..(Len(weights) - 1)}
        \cup {CumWeight(weights, Len(weights)) - 1}

ChooseThemeByProbability ==
    /\ choice.stage = "normalized"
    /\ choice.normalized # <<>>
    /\ \E jitter \in [DOMAIN choice.normalized -> Jitters] :
          LET weights == jittered_weights(choice.normalized, jitter)
              themes == [i \in DOMAIN choice.normalized |->
                            choice.normalized[i].theme]
          IN  \E point \in RandomPoints(weights) :
                 choice' = [choice EXCEPT
                              !.stage = "chosen",
                              !.weights = weights,
                              !.chosen = choices(themes, weights, point)]
    /\ UNCHANGED <<users, jokes, joke_themes, user_preferences, interactions,
                   favorites, user_view_history, ret, tasks, fav_before, rec,
                   prob, profile, conversation>>

(* ThemeBasedRecommender._update_view_history: the histories it may leave *)

\* list(set)[-50:] keeps the last 50 elements in the iteration order of
\* the set.  CPython iterates a set of ints by their slots, hash(i) = i
\* modulo the table size: for joke ids below the table size (at least 256
\* for more than 100 elements) that is the ascending order, and the 50
\* greatest ids are kept.
TrimChoices(history) ==
    IF Cardinality(history) > HistoryCap
    THEN {{h \in history :
            Cardinality({g \in history : g > h}) < HistoryKeep}}
    ELSE {history}

update_view_history_unmerged(user_id, fault) ==
    TrimChoices(user_view_history[user_id])

update_view_history(user_id, fault) ==
    LET viewed_ids == IF fault = "interactions_connect" THEN {}
                      ELSE get_user_interactions(interactions, user_id)
    IN  TrimChoices(user_view_history[user_id] \cup viewed_ids)

Recommendation(user_id, path, joke, theme_id) ==
    [user_id |-> user_id, path |-> path, joke |-> joke, theme_id |-> theme_id]

(* _get_fallback_joke, _search_joke_in_theme and _try_exploration_joke:   *)
(* the recommendations each may end the call with.                        *)

FallbackResults(user_id, excluded_ids, fault) ==
    {Recommendation(user_id, "fallback", j, 0)
        : j \in get_random_joke(excluded_ids, 0, fault)}

\* _search_joke_in_theme without its three assignments
AttachedThemeNever(joke, theme_id, preferences) == 0

\* _search_joke_in_theme: "if joke and theme_id in preferences" the joke
\* gets theme_id, theme_name and theme_emoji of the theme (0: none of them)
AttachedTheme(joke, theme_id, preferences) ==
    IF joke # 0 /\ theme_id \in DOMAIN preferences THEN theme_id ELSE 0

\* the theme path with a lookup that excludes nothing
ThemeResultsUnexcluded(user_id, excluded_ids, fault) ==
    LET preferences == get_user_preferences(user_id)
        themes == ChoosableThemes(preferences)
    IN  IF themes = {}
        THEN FallbackResults(user_id, excluded_ids, fault)
        ELSE UNION {
                LET found == get_random_joke({}, t, fault)
                IN  {Recommendation(user_id, "theme", j,
                                    AttachedTheme(j, t, preferences))
                        : j \in found \ {0}}
                      \cup (IF 0 \in found
                            THEN FallbackResults(user_id, excluded_ids, fault)
                            ELSE {})
                : t \in themes}

ThemeResults(user_id, excluded_ids, fault) ==
    LET preferences == get_user_preferences(user_id)
        themes == ChoosableThemes(preferences)
    IN  IF themes = {}
        THEN FallbackResults(user_id, excluded_ids, fault)
        ELSE UNION {
                LET found == get_random_joke(excluded_ids, t, fault)
                IN  {Recommendation(user_id, "theme", j,
                                    AttachedTheme(j, t, preferences))
                        : j \in found \ {0}}
                      \cup (IF 0 \in found
                            THEN FallbackResults(user_id, excluded_ids, fault)
                            ELSE {})
                : t \in themes}

ExplorationResults(user_id, excluded_ids, fault) ==
    LET found == get_random_joke(excluded_ids, 0, fault)
    IN  {Recommendation(user_id, "exploration", j, 0) : j \in found \ {0}}
          \cup (IF 0 \in found
                THEN ThemeResults(user_id, excluded_ids, fault)
                ELSE {})

(* ThemeBasedRecommender.get_recommended_joke.  draw is random.random(). *)

RandomDraws == {exploration_rate - 1, exploration_rate}

GetRecommendedJoke(user_id, draw, fault) ==
    /\ IF fault = "preferences"
       THEN \* "if not preferences": the no-preference path
            /\ \E j \in get_random_joke({}, 0, "none") :
                  rec' = Recommendation(user_id, "no_preference", j, 0)
            /\ UNCHANGED user_view_history
       ELSE IF fault = "interactions_query"
       THEN \* set(None) raises TypeError: the last-resort path
            /\ \E j \in get_random_joke({}, 0, "none") :
                  rec' = Recommendation(user_id, "last_resort", j, 0)
            /\ UNCHANGED user_view_history
       ELSE \E history \in update_view_history(user_id, fault) :
              /\ user_view_history' =
                    [user_view_history EXCEPT ![user_id] = history]
              /\ rec' \in (IF draw < exploration_rate
                           THEN ExplorationResults(user_id, history, fault)
                           ELSE ThemeResults(user_id, history, fault))
    /\ UNCHANGED <<users, jokes, joke_themes, user_preferences, interactions,
                   favorites, ret, tasks, fav_before, prob, profile, choice, conversation>>

(* The user rates the joke that was sent last: add_interaction for the   *)
(* user and the joke of the recommendation.                               *)

RateShownJoke(liked) ==
    /\ rec.joke # 0
    /\ Cardinality(interactions) < MaxRated
    /\ interactions' = add_interaction(interactions, rec.user_id, rec.joke,
                                       liked)
    /\ UNCHANGED <<users, jokes, joke_themes, user_preferences, favorites,
                   user_view_history, ret, tasks, fav_before, rec, prob, profile, choice, conversation>>

(* The user rates a joke of the catalog not rated before *)

RateFreshJoke(user_id) ==
    /\ \E joke_id \in {j.id : j \in jokes}
                        \ get_user_interactions(interactions, user_id) :
          interactions' = add_interaction(interactions, user_id, joke_id, TRUE)
    /\ UNCHANGED <<users, jokes, joke_themes, user_preferences, favorites,
                   user_view_history, ret, tasks, fav_before, rec, prob,
                   profile, choice, conversation>>

(* ThemeBasedRecommender._create_user_profile.  The loop visits the themes *)
(* in the order of get_user_preferences (ORDER BY t.id); acc is the        *)
(* profile and max_score, min_score, max_interactions before theme_id.     *)

RECURSIVE ProfileLoop(_, _, _)
ProfileLoop(preferences, theme_id, acc) ==
    IF theme_id > themes_count THEN acc
    ELSE LET data == preferences[theme_id]
             \* if score > max_score
             higher == data.score > acc.max_score
             \* if score < min_score
             lower == data.score < acc.min_score
             \* if interactions > max_interactions
             more == data.interactions > acc.max_interactions
         IN  ProfileLoop(preferences, theme_id + 1,
                [themes |-> Append(acc.themes,
                                [id |-> theme_id, score |-> data.score,
                                 interactions |-> data.interactions]),
                 total_interactions |->
                     acc.total_interactions + data.interactions,
                 max_score |-> IF higher THEN data.score ELSE acc.max_score,
                 favorite_theme |->
                     IF higher THEN theme_id ELSE acc.favorite_theme,
                 min_score |-> IF lower THEN data.score ELSE acc.min_score,
                 least_favorite_theme |->
                     IF lower THEN theme_id ELSE acc.least_favorite_theme,
                 max_interactions |->
                     IF more THEN data.interactions ELSE acc.max_interactions,
                 most_interacted_theme |->
                     IF more THEN theme_id ELSE acc.most_interacted_theme])

\* sorted(themes, key = score, reverse = True) is stable: a theme goes
\* after the themes of a greater or an equal score that precede it
InsertByScore(sorted, theme) ==
    LET before == Cardinality({i \in DOMAIN sorted :
                                  sorted[i].score >= theme.score})
    IN  SubSeq(sorted, 1, before) \o <<theme>>
            \o SubSeq(sorted, before + 1, Len(sorted))

RECURSIVE SortByScore(_)
SortByScore(themes) ==
    IF themes = <<>> THEN <<>>
    ELSE InsertByScore(SortByScore(SubSeq(themes, 1, Len(themes) - 1)),
                       themes[Len(themes)])

create_user_profile(preferences) ==
    LET loop == ProfileLoop(preferences, 1,
                    [themes |-> <<>>, total_interactions |-> 0,
                     max_score |-> -ScoreOne, favorite_theme |-> 0,
                     min_score |-> ScoreOne, least_favorite_theme |-> 0,
                     max_interactions |-> -1, most_interacted_theme |-> 0])
    IN  [themes |-> SortByScore(loop.themes),
         total_interactions |-> loop.total_interactions,
         favorite_theme |-> loop.favorite_theme,
         least_favorite_theme |-> loop.least_favorite_theme,
         most_interacted_theme |-> loop.most_interacted_theme]

(* ThemeBasedRecommender.get_user_profile: get_user_preferences returns {} *)
(* when the storage fails, and the profile is None then.                   *)

get_user_profile(user_id, fault) ==
    IF fault = "preferences"
    THEN [NoProfile EXCEPT !.user_id = user_id]
    ELSE LET created == create_user_profile(get_user_preferences(user_id))
         IN  [user_id |-> user_id, themes |-> created.themes,
              total_interactions |-> created.total_interactions,
              favorite_theme |-> created.favorite_theme,
              least_favorite_theme |-> created.least_favorite_theme,
              most_interacted_theme |-> created.most_interacted_theme]

GetUserProfile(user_id, fault) ==
    /\ profile' = get_user_profile(user_id, fault)
    /\ UNCHANGED <<users, jokes, joke_themes, user_preferences, interactions,
                   favorites, user_view_history, ret, tasks, fav_before, rec,
                   prob, choice, conversation>>

----------------------------------------------------------------------------
(* main.process_like_dislike.  The handler is a coroutine: it gives up the *)
(* event loop at its await expressions only, so the three Database calls   *)
(* between the two awaits run as one step.                                 *)

\* the callback arrives and the handler runs up to
\* await callback_query.answer()
ReceiveCallback(t, telegram_id, joke_id, liked) ==
    /\ tasks[t].pc = "idle"
    /\ tasks' = [tasks EXCEPT ![t] =
                    [pc |-> "answered", telegram_id |-> telegram_id,
                     joke_id |-> joke_id, liked |-> liked]]
    /\ UNCHANGED <<users, jokes, joke_themes, user_preferences, interactions,
                   favorites, user_view_history, ret, fav_before, rec, prob, profile, choice, conversation>>

\* get_or_create_user, add_interaction, update_user_preference, up to
\* await callback_query.message.answer(...)
RecordFeedback(t) ==
    LET task == tasks[t]
        user == get_or_create_user(users, user_preferences, task.telegram_id)
        upd == update_user_preference(user.user_preferences, user.id,
                                      task.joke_id, task.liked)
    IN  /\ task.pc = "answered"
        /\ IF user.ok
           THEN /\ users' = user.users
                /\ interactions' = add_interaction(interactions, user.id,
                                        task.joke_id, task.liked)
                /\ user_preferences' = upd.user_preferences
                /\ tasks' = [tasks EXCEPT ![t].pc = "replying"]
           ELSE \* user is None: user["id"] raises TypeError, which the
                \* handler does not catch
                /\ tasks' = [tasks EXCEPT ![t].pc = "failed"]
                /\ UNCHANGED <<users, interactions, user_preferences>>
        /\ UNCHANGED <<jokes, joke_themes, favorites, user_view_history, ret,
                       fav_before, rec, prob, profile, choice, conversation>>

\* the reply is sent and the handler returns
FinishCallback(t) ==
    /\ tasks[t].pc = "replying"
    /\ tasks' = [tasks EXCEPT ![t].pc = "done"]
    /\ UNCHANGED <<users, jokes, joke_themes, user_preferences, interactions,
                   favorites, user_view_history, ret, fav_before, rec, prob, profile, choice, conversation>>

----------------------------------------------------------------------------
(* The preference engine: registration and feedback *)

Next ==
    \/ \E telegram_id \in TelegramIds : GetOrCreateUser(telegram_id)
    \/ \E user_id \in UserIds, joke_id \in JokeIds, liked \in BOOLEAN :
          UpdateUserPreference(user_id, joke_id, liked)

Spec == Init /\ [][Next]_vars

(* Registration and feedback as main.py calls them: every handler takes *)
(* the user id from get_or_create_user, so feedback comes from           *)
(* registered users only.                                                *)

NextRegistration ==
    \/ \E telegram_id \in TelegramIds : GetOrCreateUser(telegram_id)
    \/ \E u \in users, joke_id \in JokeIds, liked \in BOOLEAN :
          UpdateUserPreference(u.id, joke_id, liked)

SpecRegistration == Init /\ [][NextRegistration]_vars

(* The same, with a storage that may fail during the feedback *)

NextPreferenceFaults ==
    \/ \E telegram_id \in TelegramIds : GetOrCreateUser(telegram_id)
    \/ \E u \in users, joke_id \in JokeIds, liked \in BOOLEAN,
          fault \in PreferenceFaults :
          UpdateUserPreferenceFailing(u.id, joke_id, liked, fault)

SpecPreferenceFaults == Init /\ [][NextPreferenceFaults]_vars

(* Concurrent feedback handlers of the transport layer *)

NextFeedback ==
    \/ \E t \in Tasks, telegram_id \in TelegramIds, joke_id \in JokeIds,
          liked \in BOOLEAN : ReceiveCallback(t, telegram_id, joke_id, liked)
    \/ \E t \in Tasks : RecordFeedback(t)
    \/ \E t \in Tasks : FinishCallback(t)

SpecFeedback == Init /\ [][NextFeedback]_vars

(* The interaction records *)

NextInteractions ==
    \E user_id \in UserIds, joke_id \in JokeIds, liked \in BOOLEAN :
        AddInteraction(user_id, joke_id, liked)

SpecInteractions == Init /\ [][NextInteractions]_vars

(* The favorite marks *)

NextFavorites ==
    \E user_id \in UserIds, joke_id \in JokeIds : AddFavorite(user_id, joke_id)

SpecFavorites == Init /\ [][NextFavorites]_vars

(* The recommender over a catalog that grows and is rated *)

NextRecommend ==
    \/ \E text \in JokeTexts : AddUserJoke(text, 1)
    \/ \E user_id \in UserIds, draw \in RandomDraws, fault \in Faults :
          GetRecommendedJoke(user_id, draw, fault)
    \/ RateShownJoke(TRUE)

\* the catalog of a new database: every link has the default weight
InitCatalog == Init /\ \A l \in joke_themes : l.weight = DefaultWeight

SpecRecommend == InitCatalog /\ [][NextRecommend]_vars

(* Submissions: a user sends texts of at most two words *)

SubmittedTexts == {text \in SUBSET Words : Cardinality(text) <= 2}

NextClassify == \E text \in SubmittedTexts : AddUserJoke(text, 1)

SpecClassify == InitCatalog /\ [][NextClassify]_vars

(* The add-joke conversation of one chat *)

InsertFaults == {"none", "insert"}

NextConversation ==
    \/ \E message \in ChatMessages : CancelHandler(message)
    \/ \E message \in ChatMessages : AddJokeStart(message)
    \/ \E message \in ChatMessages : AddJokeText(message)
    \/ \E message \in ChatMessages, fault \in InsertFaults :
          AddJokeConfirmation(message, fault)
    \/ FinishConfirmation

SpecConversation == InitCatalog /\ [][NextConversation]_vars

(* The recommender for a user whose preferences feedback has shaped.  The *)
(* rows of user 1 are those of a new user, of a user with one theme at    *)
(* 1.0 and every other theme at -1.0, or of a user with every theme at    *)
(* -1.0, each theme rated FewInteractions times; user ids above 1 have no *)
(* rows.  Moderation, which is not part of the program, may have          *)
(* withdrawn the jokes of the catalog.                                    *)

ProfileRows(user_id, score) ==
    {[user_id |-> user_id, theme_id |-> t, score |-> score[t],
      interactions |-> IF score[t] = 0 THEN 0 ELSE FewInteractions]
        : t \in Themes}

PreferenceProfiles ==
    {RegistrationRows(1)}
      \cup {ProfileRows(1, [t \in Themes |->
                             IF t = f THEN ScoreOne ELSE -ScoreOne])
               : f \in Themes}
      \cup {ProfileRows(1, [t \in Themes |-> -ScoreOne])}

WithdrawnJokeRows ==
    {[id |-> j, text |-> InitialText(j), author_id |-> 0,
      is_approved |-> FALSE, status |-> "rejected"]
        : j \in 1..InitialJokes}

Catalogs == {InitialJokeRows, WithdrawnJokeRows}

InitSelection ==
    /\ users = {[id |-> 1, telegram_id |-> 101]}
    /\ jokes \in Catalogs
    /\ joke_themes = {[joke_id |-> l[1], theme_id |-> l[2],
                       weight |-> DefaultWeight] : l \in InitialLinks}
    /\ user_preferences \in PreferenceProfiles
    /\ interactions = {}
    /\ favorites = EmptyBag
    /\ user_view_history = [u \in UserIds |-> {}]
    /\ ret = NoReturn
    /\ tasks = [t \in Tasks |-> IdleTask]
    /\ fav_before = NoFavoriteCall
    /\ rec = NoRecommendation
    /\ prob = NoThemeData
    /\ profile = NoProfile
    /\ choice = NoChoice
    /\ conversation = NoConversation

NextSelection ==
    \/ \E user_id \in UserIds, draw \in RandomDraws :
          GetRecommendedJoke(user_id, draw, "none")
    \/ RateShownJoke(TRUE)

SpecSelection == InitSelection /\ [][NextSelection]_vars

(* The same, with a storage that may fail during a call *)

NextStorageFaults ==
    \/ \E user_id \in UserIds, draw \in RandomDraws, fault \in Faults :
          GetRecommendedJoke(user_id, draw, fault)
    \/ RateShownJoke(TRUE)

SpecStorageFaults == InitSelection /\ [][NextStorageFaults]_vars

(* A long history.  Moderation, which is not part of the program, has    *)
(* filled the catalog with HistoryCap + 1 approved jokes, those after the *)
(* initial ones in the misc theme.  User 1 has rated all of them but the  *)
(* initial ones and likes the misc theme; the recommender has been        *)
(* started anew, so its view histories are empty.  The user rates the     *)
(* jokes left and asks for jokes.                                         *)

ManyJokes == 1..(HistoryCap + 1)

InitiallyRated == ManyJokes \ (1..InitialJokes)

InitHistory ==
    /\ users = {[id |-> 1, telegram_id |-> 101]}
    /\ jokes = {[id |-> j, text |-> InitialText(j), author_id |-> 0,
                 is_approved |-> TRUE, status |-> "approved"]
                    : j \in ManyJokes}
    /\ joke_themes =
          {[joke_id |-> l[1], theme_id |-> l[2], weight |-> DefaultWeight]
              : l \in InitialLinks}
            \cup {[joke_id |-> j, theme_id |-> MiscTheme,
                   weight |-> DefaultWeight]
                      : j \in ManyJokes \ (1..InitialJokes)}
    /\ user_preferences =
          ProfileRows(1, [t \in Themes |->
                            IF t = MiscTheme THEN ScoreOne ELSE 0])
    /\ interactions = {[user_id |-> 1, joke_id |-> j, liked |-> TRUE]
                          : j \in InitiallyRated}
    /\ favorites = EmptyBag
    /\ user_view_history = [u \in UserIds |-> {}]
    /\ ret = NoReturn
    /\ tasks = [t \in Tasks |-> IdleTask]
    /\ fav_before = NoFavoriteCall
    /\ rec = NoRecommendation
    /\ prob = NoThemeData
    /\ profile = NoProfile
    /\ choice = NoChoice
    /\ conversation = NoConversation

NextHistory ==
    \/ RateFreshJoke(1)
    \/ \E draw \in RandomDraws : GetRecommendedJoke(1, draw, "none")

SpecHistory == InitHistory /\ [][NextHistory]_vars

(* The events of two users, A and B, on one joke: each recommends, rates, *)
(* gives feedback and marks a favorite, in any order.                     *)

FrameUsers == {1, 2}

FrameJoke == 1

EventOf(user_id) ==
    \/ \E draw \in RandomDraws : GetRecommendedJoke(user_id, draw, "none")
    \/ AddInteraction(user_id, FrameJoke, TRUE)
    \/ UpdateUserPreference(user_id, FrameJoke, TRUE)
    \/ AddFavorite(user_id, FrameJoke)

NextFrame == \E user_id \in FrameUsers : EventOf(user_id)

SpecFrame == InitCatalog /\ [][NextFrame]_vars

(* _calculate_theme_probability over the theme data a row can hold: a    *)
(* score is a multiple of 0.05 in [-1, 1], interactions a count.          *)

ThemeData ==
    {[score |-> sc, interactions |-> n, probability |-> -1]
        : sc \in {x \in -ScoreOne..ScoreOne : x % 50 = 0}, n \in 0..MaxSeen}

InitProbability == InitTables /\ prob \in ThemeData /\ choice = NoChoice

NextProbability == CalculateThemeProbability

SpecProbability == InitProbability /\ [][NextProbability]_vars

(* _normalize_probabilities over lists of (theme, probability) pairs: any *)
(* themes in the order of their ids, each with a probability of 0.0,      *)
(* 0.0075, 0.5 or 1.0.                                                    *)

ListedProbabilities == {0, 750, 50000, ProbabilityOne}

RECURSIVE PairsOf(_, _, _)
PairsOf(themes, probability, theme_id) ==
    IF theme_id > themes_count THEN <<>>
    ELSE (IF theme_id \in themes
          THEN <<[theme |-> theme_id, probability |-> probability[theme_id]]>>
          ELSE <<>>) \o PairsOf(themes, probability, theme_id + 1)

ThemeProbabilityLists ==
    {PairsOf(themes, probability, 1) :
        themes \in SUBSET Themes \ {{}},
        probability \in [Themes -> ListedProbabilities]}

InitNormalize ==
    /\ InitTables
    /\ \A l \in joke_themes : l.weight = DefaultWeight
    /\ prob = NoThemeData
    /\ choice \in {[NoChoice EXCEPT !.stage = "listed",
                                    !.theme_probabilities = list]
                      : list \in ThemeProbabilityLists}

NextNormalize == NormalizeProbabilities

SpecNormalize == InitNormalize /\ [][NextNormalize]_vars

(* The choice of a theme for a user whose five themes are each at -1.0    *)
(* (probability 0.0), at -0.95 (0.0075) or at 1.0 (1.0), rated            *)
(* FewInteractions times.                                                 *)

DrawScores == {-ScoreOne, -950, ScoreOne}

DrawInputs == {ProfileRows(1, score) : score \in [Themes -> DrawScores]}

InitDraw ==
    /\ users = {[id |-> 1, telegram_id |-> 101]}
    /\ jokes = InitialJokeRows
    /\ joke_themes = {[joke_id |-> l[1], theme_id |-> l[2],
                       weight |-> DefaultWeight] : l \in InitialLinks}
    /\ user_preferences \in DrawInputs
    /\ interactions = {}
    /\ favorites = EmptyBag
    /\ user_view_history = [u \in UserIds |-> {}]
    /\ ret = NoReturn
    /\ tasks = [t \in Tasks |-> IdleTask]
    /\ fav_before = NoFavoriteCall
    /\ rec = NoRecommendation
    /\ prob = NoThemeData
    /\ profile = NoProfile
    /\ choice = NoChoice
    /\ conversation = NoConversation

NextDraw ==
    \/ CalculateThemeProbabilities(1)
    \/ ChooseThemeByProbability

SpecDraw == InitDraw /\ [][NextDraw]_vars

(* get_user_profile over the rows feedback can leave: a theme never rated  *)
(* (0.0, 0), one rated up and down again (0.0, 2), one driven to -1.0 or   *)
(* to 1.0 by a joke of weight 10.  User 1 has a row for every theme, user  *)
(* ids above 1 have none.                                                  *)

ProfileThemeRows ==
    {[score |-> 0, interactions |-> 0], [score |-> 0, interactions |-> 2],
     [score |-> -ScoreOne, interactions |-> 1],
     [score |-> ScoreOne, interactions |-> 1]}

ProfileInputs ==
    {{[user_id |-> 1, theme_id |-> t, score |-> row[t].score,
       interactions |-> row[t].interactions] : t \in Themes}
        : row \in [Themes -> ProfileThemeRows]}

InitProfile ==
    /\ users = {[id |-> 1, telegram_id |-> 101]}
    /\ jokes = InitialJokeRows
    /\ joke_themes = {[joke_id |-> l[1], theme_id |-> l[2],
                       weight |-> DefaultWeight] : l \in InitialLinks}
    /\ user_preferences \in ProfileInputs
    /\ interactions = {}
    /\ favorites = EmptyBag
    /\ user_view_history = [u \in UserIds |-> {}]
    /\ ret = NoReturn
    /\ tasks = [t \in Tasks |-> IdleTask]
    /\ fav_before = NoFavoriteCall
    /\ rec = NoRecommendation
    /\ prob = NoThemeData
    /\ profile = NoProfile
    /\ choice = NoChoice
    /\ conversation = NoConversation

NextProfile ==
    \E user_id \in UserIds, fault \in {"none", "preferences"} :
        GetUserProfile(user_id, fault)

SpecProfile == InitProfile /\ [][NextProfile]_vars

----------------------------------------------------------------------------
(* Claims about the preference engine, checked under Spec *)

RowsOf(prefs, user_id, theme_id) ==
    {p \in prefs : p.user_id = user_id /\ p.theme_id = theme_id}

\* C1: every stored UserPreference.score is within [-1.0, 1.0] after every
\* feedback event, starting from the registration scores of 0.0.
C1_ScoreWithinBounds ==
    \A p \in user_preferences : -1000 <= p.score /\ p.score <= 1000

\* a second like of a tenfold weighted joke: 1.0 + 1.0 is cut to 1.0
C1_Witness ==
    /\ ret.op = "update_user_preference" /\ ret.ok
    /\ \E p \in user_preferences : p.score = 1000 /\ p.interactions >= 2
    /\ \E p \in user_preferences : p.score = -1000 \/ p.score = 200

\* C2: one feedback event on a joke linked to themes with weights w1..wn
\* updates every linked theme exactly once: the score of theme i becomes
\* clamp(old + 0.1*wi, -1, 1) when liked and clamp(old - 0.1*wi, -1, 1) when
\* disliked, old being 0.0 when the user has no row for the theme; the
\* rows of the other themes and of the other users keep their score.
C2_EveryThemeUpdatedOnce ==
    [][LET u == ret'.user_id
           j == ret'.joke_id
           liked == ret'.liked
       IN (ret'.op = "update_user_preference"
              /\ UpdateUserPreference(u, j, liked)) =>
            /\ \A l \in get_joke_themes(j) :
                 LET before == RowsOf(user_preferences, u, l.theme_id)
                     after == RowsOf(user_preferences', u, l.theme_id)
                     old == IF before = {} THEN 0
                            ELSE (CHOOSE r \in before : TRUE).score
                     moved == IF liked THEN old + l.weight \div 10
                              ELSE old - l.weight \div 10
                     clamped == IF moved > 1000 THEN 1000
                                ELSE IF moved < -1000 THEN -1000 ELSE moved
                 IN  /\ Cardinality(after) = 1
                     /\ \A r \in after : r.score = clamped
            /\ \A p \in user_preferences :
                 (p.user_id # u \/
                  \A l \in get_joke_themes(j) : l.theme_id # p.theme_id)
                    => p \in user_preferences'
      ]_vars

\* one like of the joke with the weights {1.0, 0.5} by a registered user
C2_Witness ==
    /\ ret.op = "update_user_preference" /\ ret.ok
    /\ \E p, q \in user_preferences :
          /\ p.user_id = q.user_id
          /\ p.theme_id = 1 /\ p.score = 100 /\ p.interactions = 1
          /\ q.theme_id = 2 /\ q.score = 50 /\ q.interactions = 1

\* C3: update_user_preference on a joke without theme links returns failure
\* and leaves every UserPreference row unchanged.
C3_UnclassifiedItemIsNoOp ==
    [][(/\ ret'.op = "update_user_preference"
        /\ UpdateUserPreference(ret'.user_id, ret'.joke_id, ret'.liked)
        /\ get_joke_themes(ret'.joke_id) = {}) =>
            /\ ~ret'.ok
            /\ user_preferences' = user_preferences
      ]_vars

\* feedback on a joke id without links, after earlier feedback left rows
C3_Witness ==
    /\ ret.op = "update_user_preference" /\ ~ret.ok
    /\ \E p \in user_preferences : p.interactions > 0

InteractionsOf(prefs, user_id, theme_id) ==
    LET rows == RowsOf(prefs, user_id, theme_id)
    IN  IF rows = {} THEN 0 ELSE (CHOOSE r \in rows : TRUE).interactions

\* C4: every successful feedback event increases the interactions of each
\* theme linked to the joke by exactly 1 (a missing row is created with 1),
\* and no step decreases the interactions of any (user, theme) or removes
\* a row.
C4_InteractionsGrowByOne ==
    [][/\ \A p \in user_preferences \ user_preferences' :
            \E q \in user_preferences' :
                /\ q.user_id = p.user_id /\ q.theme_id = p.theme_id
                /\ q.interactions >= p.interactions
       /\ (/\ ret'.op = "update_user_preference"
           /\ UpdateUserPreference(ret'.user_id, ret'.joke_id, ret'.liked)
           /\ ret'.ok) =>
                \A l \in get_joke_themes(ret'.joke_id) :
                    /\ Cardinality(RowsOf(user_preferences', ret'.user_id,
                                          l.theme_id)) = 1
                    /\ InteractionsOf(user_preferences', ret'.user_id,
                                      l.theme_id)
                          = InteractionsOf(user_preferences, ret'.user_id,
                                           l.theme_id) + 1
      ]_vars

\* a row counted twice, and a row created by feedback of an unregistered user
C4_Witness ==
    /\ ret.op = "update_user_preference" /\ ret.ok
    /\ \E p \in user_preferences : p.interactions = 2
    /\ \E q \in user_preferences :
          /\ q.interactions = 1
          /\ \A usr \in users : usr.id # q.user_id

----------------------------------------------------------------------------
(* Claims about concurrent feedback, checked under SpecFeedback *)

\* the handlers whose Database calls are done
Recorded == {t \in Tasks : tasks[t].pc \in {"replying", "done"}}

\* the recorded feedback events of a user that touch a theme
EventsOn(telegram_id, theme_id) ==
    {t \in Recorded :
        /\ tasks[t].telegram_id = telegram_id
        /\ \E l \in joke_themes :
              l.joke_id = tasks[t].joke_id /\ l.theme_id = theme_id}

\* what one event makes of a score: clamp(score +/- 0.1 * weight)
ScoreAfterEvent(score, t, theme_id) ==
    LET l == CHOOSE x \in joke_themes :
                x.joke_id = tasks[t].joke_id /\ x.theme_id = theme_id
        d == l.weight \div 10
    IN  IF tasks[t].liked
        THEN (IF score + d > 1000 THEN 1000 ELSE score + d)
        ELSE (IF score - d < -1000 THEN -1000 ELSE score - d)

\* the scores the events give when applied one after another, in any order
RECURSIVE SequentialScores(_, _, _)
SequentialScores(events, score, theme_id) ==
    IF events = {} THEN {score}
    ELSE UNION {SequentialScores(events \ {t},
                    ScoreAfterEvent(score, t, theme_id), theme_id)
                   : t \in events}

\* C5: concurrent feedback events of one user lose no update: the row of
\* every theme counts every recorded event that touches the theme, and its
\* score is the one a sequential application of those events gives.
C5_NoLostUpdate ==
    \A u \in users, theme_id \in Themes :
        LET events == EventsOn(u.telegram_id, theme_id)
            rows == RowsOf(user_preferences, u.id, theme_id)
        IN  /\ Cardinality(rows) = 1
            /\ \A r \in rows :
                  /\ r.interactions = Cardinality(events)
                  /\ r.score \in SequentialScores(events, 0, theme_id)

C5_Witness ==
    /\ Recorded = Tasks
    /\ \E t1, t2 \in Tasks :
          /\ t1 # t2
          /\ tasks[t1].telegram_id = tasks[t2].telegram_id
          /\ tasks[t1].liked /\ tasks[t2].liked
          /\ \E u \in users, p \in user_preferences :
                /\ u.telegram_id = tasks[t1].telegram_id
                /\ p.user_id = u.id
                /\ EventsOn(u.telegram_id, p.theme_id) = Tasks
                /\ p.interactions = 2
                /\ p.score = 200

----------------------------------------------------------------------------
(* Claims about the interaction records, checked under SpecInteractions *)

\* C6: after add_interaction(user, joke, verdict) there is exactly one record
\* of the pair, it holds that verdict, no pair has two records, and the joke
\* is among get_user_interactions(user).
C6_OneRecordLatestVerdict ==
    [][LET u == ret'.user_id
           j == ret'.joke_id
       IN  (ret'.op = "add_interaction" /\ AddInteraction(u, j, ret'.liked)) =>
              /\ {r \in interactions' : r.user_id = u /\ r.joke_id = j}
                    = {[user_id |-> u, joke_id |-> j, liked |-> ret'.liked]}
              /\ \A r1, r2 \in interactions' :
                    (r1.user_id = r2.user_id /\ r1.joke_id = r2.joke_id)
                        => r1 = r2
              /\ j \in get_user_interactions(interactions', u)
              /\ \A r \in interactions :
                    (r.user_id # u \/ r.joke_id # j) => r \in interactions'
      ]_vars

\* a verdict has been reversed: the pair was rated before, another record
\* is kept beside it
C6_Witness ==
    /\ ret.op = "add_interaction"
    /\ ~ret.liked
    /\ [user_id |-> ret.user_id, joke_id |-> ret.joke_id, liked |-> FALSE]
          \in interactions
    /\ Cardinality(interactions) = 2
    /\ ret.joke_id \in get_user_interactions(interactions, ret.user_id)

----------------------------------------------------------------------------
(* Claims about the favorite marks, checked under SpecFavorites *)

\* C7: add_favorite flips the mark of the pair (a marked pair is unmarked and
\* False returned, an unmarked one is marked and True returned) and leaves the
\* other marks alone; no pair ever has two marks; the second of two
\* consecutive calls for one pair restores the favorites as they were.
C7_FavoriteIsAFlip ==
    [][LET u == ret'.user_id
           j == ret'.joke_id
           row == FavoriteRow(u, j)
       IN  (ret'.op = "add_favorite" /\ AddFavorite(u, j)) =>
              /\ BagIn(row, favorites') = ~BagIn(row, favorites)
              /\ ret'.ok = BagIn(row, favorites')
              /\ \A r \in BagToSet(favorites') : CopiesIn(r, favorites') = 1
              /\ \A r \in (BagToSet(favorites) \cup BagToSet(favorites')) \ {row} :
                    CopiesIn(r, favorites') = CopiesIn(r, favorites)
              /\ fav_before'.repeated => favorites' = fav_before.favorites
      ]_vars

\* the second of two consecutive calls for a pair has unmarked it, beside a
\* mark that stays
C7_Witness ==
    /\ ret.op = "add_favorite"
    /\ fav_before.repeated
    /\ ~ret.ok
    /\ BagIn(FavoriteRow(ret.user_id, ret.joke_id), fav_before.favorites)
    /\ ~BagIn(FavoriteRow(ret.user_id, ret.joke_id), favorites)
    /\ BagCardinality(favorites) = 1

----------------------------------------------------------------------------
(* Claims about the recommender, checked under SpecRecommend *)

\* the jokes that users have submitted
Submitted == {j \in jokes : j.author_id # 0}

\* C8: get_recommended_joke never returns a joke that is not approved, on any
\* of its paths; a joke submitted through add_user_joke is stored as pending,
\* not approved, and is not returned while it is pending.
C8_OnlyApprovedReturned ==
    /\ rec.joke # 0 => \E j \in jokes : j.id = rec.joke /\ j.is_approved
    /\ \A j \in Submitted :
          ~j.is_approved /\ j.status = "pending" /\ rec.joke # j.id

\* a joke was found in a theme that a pending joke is linked to as well
C8_Witness ==
    /\ rec.path = "theme"
    /\ rec.joke # 0
    /\ \E j \in Submitted, l \in joke_themes :
          l.joke_id = j.id /\ l.theme_id = rec.theme_id

\* C9: for a user that has no user_preferences rows, get_recommended_joke
\* takes the no-preference path (no view-history refresh, no exploration, no
\* theme weighting, no exclusions).
C9_NoRowsTakeNoPreferencePath ==
    (rec.path # "none"
        /\ ~\E p \in user_preferences : p.user_id = rec.user_id)
      => rec.path = "no_preference"

----------------------------------------------------------------------------
(* Claims about _calculate_theme_probability, checked under SpecProbability *)

\* C10: for a theme with interactions < 5 the probability that
\* _calculate_theme_probability returns is never below 0.3, whatever the
\* score in [-1, 1].
C10_FloorWins ==
    (prob.probability # -1 /\ prob.interactions < 5)
      => prob.probability >= 30000

\* C11: for a theme with score < -0.5 the probability that
\* _calculate_theme_probability returns is 0.3 times the value before the
\* dampening and is never zero, so the theme stays among the candidates of
\* _calculate_theme_probabilities.
C11_DampenedNeverZero ==
    (prob.probability # -1 /\ prob.score < -500) =>
        LET linear == (prob.score + 1000) * 50
            undampened == IF prob.interactions < 5 /\ linear < 30000
                          THEN 30000 ELSE linear
        IN  /\ prob.probability * 10 = 3 * undampened
            /\ prob.probability > 0

----------------------------------------------------------------------------
(* Claims about the selection, checked under SpecSelection *)

\* user 1 has theme f at 1.0 and every other theme at -1.0, each with at
\* least 5 interactions
Skewed(f) ==
    \A t \in Themes :
        \E p \in user_preferences :
            /\ p.user_id = 1 /\ p.theme_id = t /\ p.interactions >= 5
            /\ p.score = IF t = f THEN 1000 ELSE -1000

LinkedTo(joke_id, theme_id) ==
    \E l \in joke_themes : l.joke_id = joke_id /\ l.theme_id = theme_id

\* the approved jokes that the user has not rated
Fresh(user_id) ==
    {j.id : j \in {x \in jokes : x.is_approved}}
        \ {r.joke_id : r \in {x \in interactions : x.user_id = user_id}}

\* C12: for a user with one theme at 1.0 and every other theme at -1.0
\* (interactions >= 5 each), while the catalog holds an approved joke that
\* the user has not rated and that is not linked to the favourite theme, a
\* call of get_recommended_joke can return a joke that is not linked to the
\* favourite theme.
C12_NeverCollapsesOnFavourite ==
    \A f \in Themes :
        (Skewed(f) /\ \E j \in Fresh(1) : ~LinkedTo(j, f)) =>
            ENABLED (\E draw \in RandomDraws :
                        /\ GetRecommendedJoke(1, draw, "none")
                        /\ rec'.joke # 0
                        /\ ~LinkedTo(rec'.joke, f))

\* C13: when the theme path yields nothing (no theme has a positive
\* probability, or the chosen theme has no eligible joke) the call falls back
\* to the lookup without a theme that excludes the view history: if an
\* approved joke exists outside the view history of the user, the call
\* returns such a joke and not None.
C13_FallbackFindsEligibleJoke ==
    rec.path = "fallback" =>
        LET eligible == {j.id : j \in {x \in jokes : x.is_approved}}
                            \ user_view_history[rec.user_id]
        IN  eligible # {} => rec.joke \in eligible

\* the jokes a user has rated
Rated(user_id) == {r.joke_id : r \in {x \in interactions : x.user_id = user_id}}

\* C16: a get_recommended_joke call for a user with preference rows puts
\* every joke the user has rated into the view history, and does not return
\* a rated joke on the exploration, theme or fallback path.
C16_RatedJokesExcluded ==
    [][\A user_id \in UserIds, draw \in RandomDraws :
          (GetRecommendedJoke(user_id, draw, "none")
              /\ \E p \in user_preferences : p.user_id = user_id) =>
                /\ Rated(user_id) \subseteq user_view_history'[user_id]
                /\ (rec'.path \in {"exploration", "theme", "fallback"}
                       /\ rec'.joke # 0) => rec'.joke \notin Rated(user_id)
      ]_vars

\* the user with rows has rated a joke and was then given another joke of a
\* theme of the rated one
C16_Witness ==
    /\ rec.user_id = 1
    /\ rec.path = "theme"
    /\ rec.joke # 0
    /\ Rated(1) # {}
    /\ Rated(1) \subseteq user_view_history[1]
    /\ rec.joke \notin Rated(1)
    /\ \E j \in Rated(1) : LinkedTo(j, rec.theme_id)

\* C17: the view history records what was surfaced: once
\* get_recommended_joke has returned a joke to a user, the id of the joke is
\* in the view history of that user (and so is excluded by the next call).
C17_SurfacedJokeInViewHistory ==
    rec.joke # 0 => rec.joke \in user_view_history[rec.user_id]

----------------------------------------------------------------------------
(* Claims about a failing storage and an empty catalog, checked under     *)
(* SpecStorageFaults                                                      *)

\* C14: while the catalog holds no approved joke, every call of
\* get_recommended_joke, for a user with or without preference rows, ends
\* on one of its paths and returns None.
C14_EmptyCatalogReturnsNone ==
    (rec.path # "none" /\ ~\E j \in jokes : j.is_approved) =>
        /\ rec.joke = 0
        /\ rec.path \in {"no_preference", "exploration", "theme", "fallback",
                         "last_resort"}

\* on a catalog without approved jokes a call for a user without rows has
\* ended in the fallback with None, beside a user whose rows feedback shaped
C14_Witness ==
    /\ ~\E j \in jokes : j.is_approved
    /\ rec.path = "fallback"
    /\ rec.joke = 0
    /\ rec.user_id # 1
    /\ \E p \in user_preferences : p.user_id = 1 /\ p.interactions > 0

\* C15: a get_recommended_joke call during which a storage access fails
\* (reading the preferences, reading the interactions, looking up a joke)
\* ends in the lookup without a theme and without exclusions, and returns an
\* approved joke unless no approved joke can be read.
C15_FailureDegradesToLastResort ==
    [][\A user_id \in UserIds, draw \in RandomDraws,
          fault \in Faults \ {"none"} :
          GetRecommendedJoke(user_id, draw, fault) =>
              /\ rec'.path \in {"no_preference", "last_resort"}
              /\ ((fault # "lookup" /\ \E j \in jokes : j.is_approved)
                    => \E j \in jokes : j.is_approved /\ j.id = rec'.joke)
      ]_vars

----------------------------------------------------------------------------
(* Claims about the events of two users, checked under SpecFrame *)

\* C18: an operation performed for one user (get_recommended_joke,
\* add_interaction, update_user_preference, add_favorite) leaves the view
\* history, the preference rows, the interaction records and the favorite
\* marks of every other user unchanged: a step that changes any of these for
\* a user b is not an operation of another user a.
C18_OtherUsersUnchanged ==
    [][\A a \in FrameUsers :
          (\E b \in UserIds \ {a} :
              \/ user_view_history'[b] # user_view_history[b]
              \/ {p \in user_preferences' : p.user_id = b}
                    # {p \in user_preferences : p.user_id = b}
              \/ {r \in interactions' : r.user_id = b}
                    # {r \in interactions : r.user_id = b}
              \/ \E j \in JokeIds :
                    CopiesIn(FavoriteRow(b, j), favorites')
                        # CopiesIn(FavoriteRow(b, j), favorites))
            => ~EventOf(a)
      ]_vars

\* user 2 has a view history, preference rows, a record and a mark, all on
\* the joke that user 1 has rated, given feedback on and marked after that
C18_Witness ==
    /\ ret.op = "add_favorite" /\ ret.user_id = 1 /\ ret.ok
    /\ rec.user_id = 1
    /\ user_view_history[2] = {1}
    /\ \E p \in user_preferences : p.user_id = 2 /\ p.interactions = 1
    /\ \E p \in user_preferences : p.user_id = 1 /\ p.interactions = 1
    /\ \E r \in interactions : r.user_id = 2 /\ r.joke_id = 1
    /\ \E r \in interactions : r.user_id = 1 /\ r.joke_id = 1
    /\ BagIn(FavoriteRow(2, 1), favorites)
    /\ BagIn(FavoriteRow(1, 1), favorites)

----------------------------------------------------------------------------
(* Claims about the profile, checked under SpecProfile *)

\* C19: get_user_profile returns the themes sorted by score, highest first,
\* and names as favorite a theme of the highest score, as least favorite a
\* theme of the lowest score and as most interacted a theme of the largest
\* interaction count, whatever the scores are (all equal, all at -1.0 or
\* all at 1.0 included).
C19_ProfileNamesExtremes ==
    profile.themes # <<>> =>
        LET themes == {profile.themes[i] : i \in DOMAIN profile.themes}
        IN  /\ \A i \in 1..(Len(profile.themes) - 1) :
                  profile.themes[i].score >= profile.themes[i + 1].score
            /\ \E f \in themes :
                  /\ f.id = profile.favorite_theme
                  /\ \A t \in themes : t.score <= f.score
            /\ \E l \in themes :
                  /\ l.id = profile.least_favorite_theme
                  /\ \A t \in themes : t.score >= l.score
            /\ \E m \in themes :
                  /\ m.id = profile.most_interacted_theme
                  /\ \A t \in themes : t.interactions <= m.interactions

----------------------------------------------------------------------------
(* Claims about registration, checked under SpecRegistration *)

----------------------------------------------------------------------------
(* Claims about classification, checked under SpecClassify *)

\* C21: every joke stored by add_user_joke is linked to every theme one of
\* whose keywords occurs in its text, whatever the case of the letters, to
\* the misc theme alone when no keyword occurs, and so to at least one theme.
C21_EveryKeywordThemeLinked ==
    \A j \in jokes :
        j.author_id # 0 =>
            LET links == {l.theme_id : l \in get_joke_themes(j.id)}
                named == {t \in Themes :
                            \E k \in Keywords(t), w \in j.text :
                                w.stem = k.stem}
            IN  /\ links = (IF named = {} THEN {MiscTheme} ELSE named)
                /\ links # {}

----------------------------------------------------------------------------
(* Claims about the paths of get_recommended_joke, checked under *)
(* SpecSelection                                                 *)

\* C22: when the exploration draw fires, the unfiltered lookup excluding the
\* view history alone decides the result of the call: the call returns what
\* that lookup returns, draws no theme and makes no theme-filtered lookup.
C22_ExplorationSkipsThemes ==
    [][\A user_id \in UserIds :
          GetRecommendedJoke(user_id, exploration_rate - 1, "none") =>
              /\ rec'.joke \in get_random_joke(user_view_history'[user_id],
                                               0, "none")
              /\ rec'.path # "theme"
              /\ rec'.theme_id = 0]_vars

\* C23: a joke that get_recommended_joke returns from the theme-filtered
\* lookup is approved, is linked to the theme that was drawn and is not in
\* the view history the call works with.
C23_ThemeJokeFitsTheme ==
    (rec.path = "theme" /\ rec.joke # 0) =>
        /\ \E j \in jokes : j.id = rec.joke /\ j.is_approved
        /\ LinkedTo(rec.joke, rec.theme_id)
        /\ rec.joke \notin user_view_history[rec.user_id]

\* joke 1 of theme 1 is rated and in the view history; the lookup in theme 1
\* returns joke 3, the other joke of the theme
C23_Witness ==
    /\ rec.path = "theme" /\ rec.theme_id = 1 /\ rec.joke = 3
    /\ user_view_history[rec.user_id] = {1}
    /\ LinkedTo(1, 1)

----------------------------------------------------------------------------
(* Claims about the paths of get_recommended_joke when the storage may *)
(* fail, checked under SpecStorageFaults                               *)

\* C24: a returned joke carries theme metadata exactly when the
\* theme-filtered lookup chose it, and then the metadata is that of the
\* drawn theme, a theme of positive probability whose lookup returns the
\* joke; a joke of the no-preference, exploration, fallback or last-resort
\* path carries none.
C24_ThemeMetadataOnThemePathOnly ==
    rec.joke # 0 =>
        IF rec.path = "theme"
        THEN /\ rec.theme_id \in
                    ChoosableThemes(get_user_preferences(rec.user_id))
             /\ rec.joke \in get_random_joke(user_view_history[rec.user_id],
                                             rec.theme_id, "none")
        ELSE /\ rec.theme_id = 0
             /\ rec.path \in {"no_preference", "exploration", "fallback",
                              "last_resort"}

\* the lookup in the misc theme returned joke 2, with the metadata of the
\* misc theme
C24_Witness ==
    rec.path = "theme" /\ rec.joke = 2 /\ rec.theme_id = MiscTheme

----------------------------------------------------------------------------
(* Claims about the choice of a theme *)

\* C25, checked under SpecDraw: in the weighted draw every theme of
\* probability > 0 has a strictly positive weight after the jitter, at least
\* 0.01 when more than one theme is left, and can be drawn with these
\* weights; a theme of probability 0 is never drawn.
C25_SurvivorsCanBeDrawn ==
    choice.stage = "chosen" =>
        LET survivors == ChoosableThemes(get_user_preferences(1))
            n == Len(choice.normalized)
            themes == [i \in 1..n |-> choice.normalized[i].theme]
        IN  /\ {themes[i] : i \in 1..n} = survivors
            /\ Len(choice.weights) = n
            /\ \A i \in 1..n :
                  /\ choice.weights[i] > 0
                  /\ n > 1 => choice.weights[i]
                                  >= WeightFloor * choice.normalized[i].den
            /\ \A t \in survivors :
                  \E point \in RandomPoints(choice.weights) :
                      choices(themes, choice.weights, point) = t
            /\ choice.chosen \in survivors

\* themes 1 and 2 at 1.0, theme 3 at -0.95, themes 4 and 5 at -1.0: the
\* jitter takes the weight of theme 3 below 0.01, the floor lifts it, and
\* theme 3 is drawn
C25_Witness ==
    /\ choice.stage = "chosen"
    /\ ChoosableThemes(get_user_preferences(1)) = {1, 2, 3}
    /\ choice.chosen = 3
    /\ choice.weights[3] = WeightFloor * choice.normalized[3].den

\* C26, checked under SpecNormalize: for a non-empty list of (theme,
\* probability) pairs _normalize_probabilities returns one probability per
\* theme, the probabilities sum to 1, each is the raw probability divided by
\* the total when the total is positive and 1/n when the total is zero.
C26_NormalizedSumIsOne ==
    choice.stage = "normalized" =>
        LET raw == choice.theme_probabilities
            n == Len(raw)
            total == SumProbabilities(raw)
            den == choice.normalized[1].den
            nums == [i \in 1..n |->
                        [theme |-> 0,
                         probability |-> choice.normalized[i].num]]
        IN  /\ Len(choice.normalized) = n
            /\ \A i \in 1..n :
                  /\ choice.normalized[i].theme = raw[i].theme
                  /\ choice.normalized[i].den = den
                  /\ IF total > 0
                     THEN /\ choice.normalized[i].num = raw[i].probability
                          /\ den = total
                     ELSE /\ choice.normalized[i].num = 1
                          /\ den = n
            /\ den > 0
            /\ SumProbabilities(nums) = den

\* three themes of probability 0.0: the total is zero and each gets 1/3
C26_Witness ==
    /\ choice.stage = "normalized"
    /\ Len(choice.theme_probabilities) = 3
    /\ SumProbabilities(choice.theme_probabilities) = 0
    /\ \A i \in 1..3 : choice.normalized[i].num = 1
                        /\ choice.normalized[i].den = 3

----------------------------------------------------------------------------
(* Claims about _calculate_theme_probability, checked under *)
(* SpecProbability                                          *)

\* C27: for a theme with at least 5 interactions and a score of at least
\* -0.5 _calculate_theme_probability returns exactly (score + 1) / 2, the
\* linear map of [-1, 1] onto [0, 1]: -0.5 -> 0.25, 0.0 -> 0.5, 0.5 -> 0.75,
\* 1.0 -> 1.0.
C27_LinearMapReturned ==
    (prob.probability # -1 /\ prob.interactions >= 5 /\ prob.score >= -500) =>
        /\ prob.probability * 2 = (prob.score + 1000) * 100
        /\ prob.score = -500 => prob.probability = 25000
        /\ prob.score = 0 => prob.probability = 50000
        /\ prob.score = 500 => prob.probability = 75000
        /\ prob.score = 1000 => prob.probability = 100000

\* the lowest score that is not dampened, with the fewest interactions that
\* are not floored
C27_Witness ==
    prob.score = -500 /\ prob.interactions = 5 /\ prob.probability = 25000

----------------------------------------------------------------------------
(* Claims about the cap of the view history, checked under SpecHistory *)

\* C28: after a refresh the view history of the user holds at most 100 joke
\* ids; when the merged set has more than 100 it is cut to exactly 50, and
\* these are the 50 most recent ones, so they include the jokes rated since
\* the start, which are fewer than 50 and more recent than any other.
C28_CapKeepsMostRecent ==
    [][\A draw \in RandomDraws :
          GetRecommendedJoke(1, draw, "none") =>
              LET merged == user_view_history[1] \cup Rated(1)
              IN  /\ Cardinality(user_view_history'[1]) <= HistoryCap
                  /\ Cardinality(merged) > HistoryCap =>
                        /\ Cardinality(user_view_history'[1]) = HistoryKeep
                        /\ user_view_history'[1] \subseteq merged
                        /\ (Rated(1) \ InitiallyRated)
                              \subseteq user_view_history'[1]]_vars

----------------------------------------------------------------------------
(* Claims about feedback under storage failures, checked under *)
(* SpecPreferenceFaults                                        *)

\* C29: when the storage fails at any point of update_user_preference for a
\* joke linked to several themes, the call returns a falsy result and
\* changes no preference row.
C29_FailureReportedAndNothingWritten ==
    [][\A u \in users, joke_id \in JokeIds, liked \in BOOLEAN,
         fault \in PreferenceFaults \ {"none"} :
          (/\ Cardinality(get_joke_themes(joke_id)) > 1
           /\ UpdateUserPreferenceFailing(u.id, joke_id, liked, fault)) =>
              /\ ~ret'.ok
              /\ user_preferences' = user_preferences]_vars

(* C30: in the add-joke conversation a joke is inserted only by a positive *)
(* confirmation received in state waiting_for_confirmation, and its text   *)
(* is the stored one, which was accepted in state waiting_for_joke: 10 to  *)
(* 1000 characters and no forbidden word.  A rejected text leaves the      *)
(* state at waiting_for_joke and stores nothing, a negative answer leads   *)
(* back to waiting_for_joke, and a cancel in either state as well as a     *)
(* completed confirmation leave the chat without a state.                  *)
C30_JokeInsertedOnlyByConfirmation ==
    [][LET accepted(text) ==
               /\ TextLength(text) >= MinLength
               /\ TextLength(text) <= MaxLength
               /\ ~\E w \in text : w.stem = "reklama"
       IN  /\ jokes' # jokes =>
                /\ conversation.state = "waiting_for_confirmation"
                /\ \E message \in ChatMessages :
                      /\ LowerInPhrases(message, PositiveResponses)
                      /\ AddJokeConfirmation(message, "none")
                /\ conversation.data # <<>>
                /\ accepted(conversation.data[1].joke_text)
                /\ \E j \in jokes' \ jokes :
                      /\ jokes' = jokes \cup {j}
                      /\ j.text = conversation.data[1].joke_text
           /\ (conversation'.data # conversation.data
                  /\ conversation'.data # <<>>) =>
                /\ conversation.state = "waiting_for_joke"
                /\ accepted(conversation'.data[1].joke_text)
           /\ \A message \in ChatMessages :
                (/\ AddJokeText(message)
                 /\ ~InPhrases(message, CancelPhrases)
                 /\ ~accepted(strip(message))) =>
                    /\ conversation' = conversation
                    /\ jokes' = jokes
                    /\ joke_themes' = joke_themes
           /\ \A message \in ChatMessages, fault \in InsertFaults :
                (/\ LowerInPhrases(message, NegativeResponses)
                 /\ AddJokeConfirmation(message, fault)) =>
                    conversation'.state = "waiting_for_joke"
           /\ \A message \in ChatMessages :
                (\/ CancelHandler(message)
                 \/ /\ InPhrases(message, CancelPhrases)
                    /\ \/ AddJokeText(message)
                       \/ \E fault \in InsertFaults :
                             AddJokeConfirmation(message, fault)) =>
                    /\ conversation'.state = "none"
                    /\ jokes' = jokes
           /\ FinishConfirmation => conversation'.state = "none"]_vars

\* a confirmed joke of the chat's user is in the catalog, pending, and the
\* chat has no state any more
C30_Witness ==
    /\ conversation = NoConversation
    /\ \E j \in jokes, u \in users :
          /\ u.telegram_id = Chatter
          /\ j.author_id = u.id
          /\ j.status = "pending"
          /\ TextLength(j.text) = MaxLength

====
